---------------------------- MODULE Spec2Model ----------------------------
(***************************************************************************)
(* batchit: EBS volume provisioning (exsmount.CreateAttach), the status    *)
(* poll (exsmount.WaitForVolumeStatus) and volume teardown (ddv).          *)
(*                                                                         *)
(* Four specifications share the module:                                   *)
(*   SpecWait  one WaitForVolumeStatus call, poll by poll                  *)
(*   Spec      CreateAttach of one process                                 *)
(*   SpecRace  CreateAttach of two processes on one host                   *)
(*   SpecDdv   ddv.Main: one DetachAndDelete goroutine per volume id       *)
(* In Spec, SpecRace and SpecDdv a whole WaitForVolumeStatus call is one   *)
(* step whose outcome is one of the exits of the poll loop (WaitResults).  *)
(***************************************************************************)
EXTENDS Integers, Sequences, FiniteSets, TLC

VARIABLES
    \* ---- WaitForVolumeStatus (SpecWait)
    wstatus,    \* the status argument
    wi,         \* the loop index i
    wx,         \* xstatus
    wres,       \* "running", or how the call ended
    wmsg,       \* the state named in the returned timeout message
    wcalls,     \* DescribeVolumes calls issued
    wlast,      \* the answer of the last DescribeVolumes call
    wslept,     \* the sleep (seconds) that followed the last non-matching poll
    \* ---- CreateAttach (Spec, SpecRace): the host and the provider
    active,     \* the provisioning processes running on the host
    devNodes,   \* the device paths that exist on the host (os.Stat succeeds)
    provDevs,   \* the device names the provider holds in use on the instance
    nextVol,    \* the next volume id the provider hands out
    foreign,    \* other containers of the host attach volumes too
    \* ---- CreateAttach: one process
    cli,        \* *Args: Size, VolumeType, Iops, N, Keep
    pc,         \* where the process is in CreateAttach
    result,     \* "none", or what CreateAttach returned
    err,        \* the function-level err variable
    voli,       \* the volume loop index i
    rsp,        \* the id of the volume Create returned (0: none)
    prefix,     \* index into {"/dev/sd", "/dev/xvd"}
    k,          \* the attach loop index k
    attachDevice,
    devices,    \* []string devices
    volumes,    \* []string volumes
    printed,    \* the volume ids printed on stdout
    \* ---- CreateAttach: what has been sent and seen (history)
    metaCalls,  \* requests to the metadata service
    cpIssued,   \* a control-plane request has been issued
    createTries,\* Create calls per volume index
    createLog,  \* the (size, type, iops) of every create-volume request
    created,    \* ids of the volumes the provider created for the process
    attachTries,\* attach requests for the current volume, per prefix
    attachReqs, \* ids of the volumes an attach request was issued for
    obsAvail,   \* ids of the volumes a status poll observed 'available'
    obsInUse,   \* ids of the volumes a status poll observed 'in-use'
    handed,     \* ids of the volumes whose device was appended to devices
    attOk,      \* the device paths of the attach calls that succeeded
    dotCalls,   \* the (volume, device) of the delete-on-termination calls, in order
    lastAttach, \* the answer to the last attach request for the current volume
    \* ---- ddv: the provider
    home,       \* per volume id: the region (index) the volume lives in, 0: none
    pvol,       \* per volume id: the volume at the provider
    \* ---- ddv: Main and one DetachAndDelete goroutine per volume id
    mpc,        \* where Main is
    spawned,    \* the number of goroutines Main has started
    tpc,        \* per volume id: where its goroutine is
    tregion,    \* the index of the region being probed
    tdrsp,      \* drsp: "nil" or "set"
    terr,       \* err: "nil" or the error
    tres,       \* "none", or what DetachAndDelete returned
    \* ---- ddv: what has been sent and seen (history)
    probes,     \* the regions of the describe calls of the probe, in order
    detachCalls,\* detach requests per volume id
    waitCalls,  \* WaitForVolumeStatus calls per volume id
    deleteCalls,\* delete requests per volume id
    sawAvail,   \* how the volume was seen unattached: "no", "poll", "report"
    callRegions,\* the regions the detach, poll and delete calls were sent to
    exitStatus, \* the exit status of the ddv process (-1 while it runs)
    detachAns,  \* per volume id: the answer to its last detach request
    \* ---- MountLocal (SpecMount): the invocation
    prog,       \* "ebsmount" or "localmount"
    fsType,     \* the requested filesystem type (cli.FSType)
    deviceCandidates,
    \* ---- MountLocal: the host
    devFiles,   \* the device paths that exist (os.Stat succeeds)
    mtab,       \* the devices listed in /proc/mounts
    mounted,    \* the devices that are mounted
    members,    \* the devices that are members of an array
    mdadm,      \* exec.LookPath("mdadm") succeeds
    renames,    \* the mount table lists devices under another path
    \* ---- MountLocal: one run
    lpc,        \* where the run is
    inUse,      \* the in-use set mountedDevices() returned
    mdevices,   \* []string devices of MountLocal
    mi,         \* the index i of the loop over devices
    raidDev,
    mres,       \* "none", or the error MountLocal returned ("nil": none)
    mret,       \* the device list MountLocal returned
    mexit,      \* the exit status of the process (-1 while it runs)
    prior,      \* the outcome of the run before this one
    \* ---- MountLocal: the tools called in this run (history)
    mkfsCalls,  \* the (device, fstype) of every mkfs call
    mdadmCalls, \* the (array, devices) of every mdadm call
    mountCalls, \* the (device, mount point index) of every mount call
    \* ---- submit (SpecSubmit): the generated job command and its shell
    sEbs,       \* --ebs is given
    sVolumes,   \* --volumes is given
    commands,   \* the lines of the job command
    spc,        \* the line the shell is at
    shell,      \* "running", "exited" or "killed"
    ebsPhase,   \* how far the ebsmount of the command substitution is
    cvDef,      \* the definition of cleanup_volume in force
    trapExit,   \* the EXIT trap
    trapInt,    \* the INT trap
    trapTerm,   \* the TERM trap
    vid,        \* $vid
    vidPrinted, \* the volume ids ebsmount has printed
    ddvCalls,   \* the arguments of the `batchit ddv` calls
    tmpCleaned, \* cleanup() of the temporary directory has run
    \* ---- findNextDevNode (SpecFind)
    fnPrefix,   \* the index of the prefix argument
    fnFrom,     \* the search space is letters[fnFrom:]
    fnNodes,    \* the device paths that exist on the host
    fnDone,     \* the call has been made
    fnOut,      \* the path returned, NoDev for the panic
    \* ---- the split of the size (SpecSize)
    reqSize,    \* --size as given
    reqN,       \* --n as given
    splitDone,  \* the split has been computed
    perVolume   \* cli.Size after the split: the size of each create call

waitVars == <<wstatus, wi, wx, wres, wmsg, wcalls, wlast, wslept>>

hostVars == <<active, devNodes, provDevs, nextVol, foreign>>

procVars == <<cli, pc, result, err, voli, rsp, prefix, k, attachDevice,
              devices, volumes, printed>>

histVars == <<metaCalls, cpIssued, createTries, createLog, created, attachTries,
              attachReqs, obsAvail, obsInUse, handed, attOk, dotCalls,
              lastAttach>>

provVars == <<hostVars, procVars, histVars>>

ddvVars == <<home, pvol, mpc, spawned, tpc, tregion, tdrsp, terr, tres, probes,
             detachCalls, waitCalls, deleteCalls, sawAvail, callRegions,
             exitStatus, detachAns>>

mountVars == <<prog, fsType, deviceCandidates, devFiles, mtab, mounted, members,
               mdadm, renames, lpc, inUse, mdevices, mi, raidDev, mres, mret, mexit,
               prior, mkfsCalls, mdadmCalls, mountCalls>>

submitVars == <<sEbs, sVolumes, commands, spc, shell, ebsPhase, cvDef, trapExit,
                trapInt, trapTerm, vid, vidPrinted, ddvCalls, tmpCleaned>>

findVars == <<fnPrefix, fnFrom, fnNodes, fnDone, fnOut>>

sizeVars == <<reqSize, reqN, splitDone, perVolume>>

vars == <<waitVars, provVars, ddvVars, mountVars, submitVars, findVars,
          sizeVars>>

----------------------------------------------------------------------------
(* The provider's volume states and the answers of a describe call.        *)

VolStates == {"creating", "available", "in-use", "deleting", "deleted", "error"}

\* a describe call fails ("err"), answers with no volume ("empty"), or
\* answers with the volume's state
Responses == VolStates \cup {"err", "empty"}

\* for i := 0; i < 30; i++
PollBudget == 30

\* time.Sleep(5 * time.Second) before the first poll
InitialSleep == 5

\* time.Sleep(4 * time.Second) after a non-matching poll
PollSleep == 4

\* if i > 10 { time.Sleep(i seconds) }
EscalateAfter == 10

StatusMatchesAlways(x, status) == TRUE

\* if xstatus == status { return nil }
StatusMatches(x, status) == x = status

XstatusKeepFirst(old, ans) == IF old = "none" THEN ans ELSE old

\* xstatus = *drsp.Volumes[0].State
NextXstatus(old, ans) == ans

BudgetLeftInclusive(i) == i + 1 <= PollBudget

\* i++; i < 30: another iteration follows iteration i
BudgetLeft(i) == i + 1 < PollBudget

\* What iteration i of the poll loop does with the answer ans.
PollStep(i, ans, status) ==
    IF ans = "err" THEN "error"
    ELSE IF ans = "empty" THEN "panic"
    ELSE IF StatusMatches(ans, status) THEN "ok"
    ELSE IF BudgetLeft(i) THEN "continue"
    ELSE "timeout"

SleepAfterFromTen(i) == PollSleep + (IF i >= EscalateAfter THEN i ELSE 0)

\* The sleep after a non-matching poll of iteration i.
SleepAfter(i) == PollSleep + (IF i > EscalateAfter THEN i ELSE 0)

WaitInit ==
    /\ wstatus \in {"available", "in-use"}
    /\ wi = 0
    /\ wx = "none"
    /\ wres = "running"
    /\ wmsg = "none"
    /\ wcalls = 0
    /\ wlast = "none"
    /\ wslept = InitialSleep

\* One iteration of the loop of WaitForVolumeStatus.
Poll ==
    /\ wres = "running"
    /\ \E ans \in Responses :
         LET step == PollStep(wi, ans, wstatus)
             x    == IF ans \in VolStates THEN NextXstatus(wx, ans) ELSE wx
         IN  /\ wcalls' = wcalls + 1
             /\ wlast' = ans
             /\ wx' = x
             /\ wres' = IF step = "continue" THEN "running" ELSE step
             /\ wmsg' = IF step = "timeout" THEN x ELSE wmsg
             /\ wi' = IF step \in {"continue", "timeout"} THEN wi + 1 ELSE wi
             /\ wslept' = IF step \in {"continue", "timeout"} THEN SleepAfter(wi) ELSE wslept
    /\ UNCHANGED wstatus

\* The exits of one whole WaitForVolumeStatus call: how it ended and the state
\* its last poll observed ("none" when that poll got no state).
WaitResults(status) ==
    { r \in { [res |-> PollStep(i, ans, status),
               obs |-> IF ans \in VolStates THEN ans ELSE "none"] :
                 i \in 0..(PollBudget - 1), ans \in Responses } :
        r.res # "continue" }


----------------------------------------------------------------------------
(* CreateAttach: arguments and pure helpers.                               *)

\* the largest number of volumes of one request (-n)
MaxN == 2

\* the provisioning processes of the host: the race is between two
Procs == {1, 2}

\* the sizes (GB) and the iops a request is tried with
Sizes == {1, 200}
IopsIn == {0, 50, 100, 10000, 20001}

\* cli.Iops = 45 * cli.Size
IopsDefaultFactor == 45
\* cli.Iops < 100
IopsMin == 100
\* cli.Iops > 20000
IopsMax == 20000
\* cli.Iops > 50*cli.Size
IopsPerGB == 50
\* if cli.Iops > 200000
IopsClampTest == 200000

\* The io1 block of CreateAttach: whether the request passes, and cli.Iops after it.
CheckIops(vtype, size, iops) ==
    IF vtype # "io1" THEN [ok |-> TRUE, iops |-> iops]
    ELSE LET i1 == IF iops = 0 THEN IopsDefaultFactor * size ELSE iops
             i2 == IopsDefaultFactor * size
         IN  IF i1 < IopsMin \/ i1 > IopsMax THEN [ok |-> FALSE, iops |-> i1]
             ELSE IF i1 > IopsPerGB * size
                  THEN [ok |-> TRUE, iops |-> IF i2 > IopsClampTest THEN IopsMax ELSE i2]
                  ELSE [ok |-> TRUE, iops |-> i1]

\* cli.Size = int64(float64(cli.Size)/float64(cli.N) + 0.5)
SplitSize(size, n) == (2 * size + n) \div (2 * n)

\* The CreateVolumeInput of Create: Iops is set for io1 only.
CreateInput(size, typ, iops) ==
    [size |-> size, typ |-> typ, iops |-> IF typ = "io1" THEN iops ELSE -1]

\* const letters = "abcdefghijklmnopqrstuvwxyz"
NLetters == 26

\* []string{"/dev/sd", "/dev/xvd"}
Prefixes == <<"/dev/sd", "/dev/xvd">>

\* for k := int64(1); k < 7; k++
KLimit == 7

NoDev == <<"none", 0>>

findNextDevNodeUnchecked(pre, from, nodes) == <<pre, from>>

findNextDevNodeLast(pre, from, nodes) ==
    LET free == {c \in from..(NLetters - 1) : <<pre, c>> \notin nodes}
    IN  IF free = {} THEN NoDev
        ELSE <<pre, CHOOSE c \in free : \A d \in free : c >= d>>

\* A device path is a prefix and the index of its letter in letters.
\* findNextDevNode(prefix, letters[from:]): the first path of the search space
\* that does not exist; NoDev when every path exists (the panic).
findNextDevNode(pre, from, nodes) ==
    LET free == {c \in from..(NLetters - 1) : <<pre, c>> \notin nodes}
    IN  IF free = {} THEN NoDev
        ELSE <<pre, CHOOSE c \in free : \A d \in free : c <= d>>

\* The outcomes of one Create call: whether CreateVolume made a volume, how
\* Create ended, and the state the last status poll observed.
CreateOutcomes ==
    { [made |-> FALSE, res |-> e, obs |-> "none"] : e \in {"ratelimit", "other"} }
    \cup
    { [made |-> TRUE, res |-> IF w.res = "timeout" THEN "other" ELSE w.res, obs |-> w.obs]
        : w \in {x \in WaitResults("available") : x.res # "error"} }
    \cup
    { [made |-> TRUE, res |-> e, obs |-> "none"] : e \in {"ratelimit", "other"} }

IsRateLimitAlways(e) == TRUE

\* strings.Contains(err.Error(), "RequestLimitExceeded")
IsRateLimit(e) == e = "ratelimit"

AttachFailedOnOther(resp) == resp = "other"

\* if _, err := svc.AttachVolume(...); err != nil
AttachFailed(resp) == resp # "ok"

MarksDeleteAlways(keep) == TRUE

\* if !cli.Keep
MarksDelete(keep) == ~keep

IsInUseAlways(resp) == TRUE

\* strings.Contains(err.Error(), "is already in use")
IsInUse(resp) == resp = "inuse"

\* The answers of the provider to an attach request at dev: it accepts only a
\* device name it does not hold in use; a name may also be held by an
\* attacher of another container of the host.
AttachResponses(dev, inuse) ==
    (IF dev \in inuse THEN {"inuse"} ELSE {"ok"})
    \cup (IF foreign THEN {"inuse"} ELSE {}) \cup {"other"}

\* the device paths that may exist on the host when provisioning starts
InitNodeSets ==
    { {}, {<<Prefixes[1], 1>>},
      {<<Prefixes[1], c>> : c \in 0..(NLetters - 1)} }

CliSet ==
    { [Size |-> 200, VolumeType |-> "gp2", Iops |-> 0, N |-> n, Keep |-> kp]
        : n \in 1..MaxN, kp \in BOOLEAN }
    \cup
    { [Size |-> s, VolumeType |-> "io1", Iops |-> io, N |-> n, Keep |-> TRUE]
        : s \in Sizes, io \in IopsIn, n \in 1..MaxN }

\* the requests of the two-process runs
RaceCliSet ==
    { [Size |-> 200, VolumeType |-> "gp2", Iops |-> 0, N |-> 1, Keep |-> kp]
        : kp \in BOOLEAN }

ProvInitCommon ==
    /\ provDevs = {}
    /\ nextVol = 1
    /\ pc = [p \in Procs |-> IF p \in active THEN "start" ELSE "off"]
    /\ result = [p \in Procs |-> "none"]
    /\ err = [p \in Procs |-> "nil"]
    /\ voli = [p \in Procs |-> 0]
    /\ rsp = [p \in Procs |-> 0]
    /\ prefix = [p \in Procs |-> 1]
    /\ k = [p \in Procs |-> 1]
    /\ attachDevice = [p \in Procs |-> NoDev]
    /\ devices = [p \in Procs |-> <<>>]
    /\ volumes = [p \in Procs |-> <<>>]
    /\ printed = [p \in Procs |-> <<>>]
    /\ metaCalls = [p \in Procs |-> 0]
    /\ cpIssued = [p \in Procs |-> FALSE]
    /\ createTries = [p \in Procs |-> [i \in 0..(MaxN - 1) |-> <<>>]]
    /\ createLog = [p \in Procs |-> {}]
    /\ created = [p \in Procs |-> {}]
    /\ attachTries = [p \in Procs |-> [i \in 1..Len(Prefixes) |-> 0]]
    /\ attachReqs = [p \in Procs |-> {}]
    /\ obsAvail = [p \in Procs |-> {}]
    /\ obsInUse = [p \in Procs |-> {}]
    /\ handed = [p \in Procs |-> {}]
    /\ lastAttach = [p \in Procs |-> "none"]
    /\ attOk = [p \in Procs |-> {}]
    /\ dotCalls = [p \in Procs |-> <<>>]

\* one provisioning process, any request
ProvInit ==
    /\ active = {1}
    /\ foreign = TRUE
    /\ devNodes \in InitNodeSets
    /\ \E c \in CliSet : cli = [p \in Procs |-> c]
    /\ ProvInitCommon

\* every process of the host provisioning at once
RaceInit ==
    /\ active = Procs
    /\ foreign = FALSE
    /\ devNodes = {}
    /\ cli \in [Procs -> RaceCliSet]
    /\ ProvInitCommon

\* CreateAttach returns: the process ends with result r.
Return(p, r) ==
    /\ result' = [result EXCEPT ![p] = r]
    /\ pc' = [pc EXCEPT ![p] = "done"]

----------------------------------------------------------------------------
(* CreateAttach, one step per blocking call.                               *)

\* iid.Get() and session.NewSession()
Start(p) ==
    /\ pc[p] = "start"
    /\ metaCalls' = [metaCalls EXCEPT ![p] = @ + 1]
    /\ \E o \in {"ok", "err_iid", "err_session"} :
         IF o = "ok"
         THEN /\ pc' = [pc EXCEPT ![p] = "validate"]
              /\ UNCHANGED result
         ELSE Return(p, o)
    /\ UNCHANGED <<active, devNodes, provDevs, nextVol, foreign, cli, err,
                 voli, rsp, prefix, k, attachDevice, devices, volumes,
                 printed, cpIssued, createTries, createLog, created,
                 attachTries, attachReqs, obsAvail, obsInUse, handed, attOk,
                 dotCalls, lastAttach, waitVars, ddvVars, mountVars,
                 submitVars, findVars, sizeVars>>

\* the io1 block, then the split of the size over the N volumes
Validate(p) ==
    /\ pc[p] = "validate"
    /\ LET c == CheckIops(cli[p].VolumeType, cli[p].Size, cli[p].Iops)
       IN  IF ~c.ok
           THEN /\ cli' = [cli EXCEPT ![p].Iops = c.iops]
                /\ Return(p, "err_iops")
           ELSE /\ cli' = [cli EXCEPT ![p].Iops = c.iops,
                                      ![p].Size = SplitSize(cli[p].Size, cli[p].N)]
                /\ pc' = [pc EXCEPT ![p] = "create"]
                /\ UNCHANGED result
    /\ UNCHANGED <<active, devNodes, provDevs, nextVol, foreign, err, voli,
                 rsp, prefix, k, attachDevice, devices, volumes, printed,
                 metaCalls, cpIssued, createTries, createLog, created,
                 attachTries, attachReqs, obsAvail, obsInUse, handed, attOk,
                 dotCalls, lastAttach, waitVars, ddvVars, mountVars,
                 submitVars, findVars, sizeVars>>

\* One Create call with outcome o: the create-volume request and the status wait.
DoCreate(p, o) ==
    /\ createTries' = [createTries EXCEPT ![p][voli[p]] = Append(@, o.res)]
    /\ createLog' = [createLog EXCEPT
                       ![p] = @ \cup {CreateInput(cli[p].Size, cli[p].VolumeType, cli[p].Iops)}]
    /\ cpIssued' = [cpIssued EXCEPT ![p] = TRUE]
    /\ nextVol' = IF o.made THEN nextVol + 1 ELSE nextVol
    /\ created' = [created EXCEPT ![p] = IF o.made THEN @ \cup {nextVol} ELSE @]
    /\ obsAvail' = [obsAvail EXCEPT
                      ![p] = IF o.made /\ o.obs = "available" THEN @ \cup {nextVol} ELSE @]

\* Create returned a volume: the attach loops start.
StartAttach(p) ==
    /\ rsp' = [rsp EXCEPT ![p] = nextVol]
    /\ pc' = [pc EXCEPT ![p] = "attach"]
    /\ prefix' = [prefix EXCEPT ![p] = 1]
    /\ k' = [k EXCEPT ![p] = 1]
    /\ attachDevice' = [attachDevice EXCEPT ![p] = NoDev]
    /\ attachTries' = [attachTries EXCEPT ![p] = [i \in 1..Len(Prefixes) |-> 0]]
    /\ lastAttach' = [lastAttach EXCEPT ![p] = "none"]
    /\ UNCHANGED result

MoreVolumesNever(i, n) == FALSE

\* i++ and the loop test `i < cli.N`
MoreVolumes(i, n) == i + 1 < n

\* The end of the body of the volume loop: i++ and the loop test.
NextVolume(p) ==
    IF MoreVolumes(voli[p], cli[p].N)
    THEN /\ voli' = [voli EXCEPT ![p] = @ + 1]
         /\ pc' = [pc EXCEPT ![p] = "create"]
    ELSE /\ pc' = [pc EXCEPT ![p] = "finish"]
         /\ UNCHANGED voli

\* rsp, err = Create(...), the first attempt for volume i
CreateFirst(p) ==
    /\ pc[p] = "create"
    /\ \E o \in CreateOutcomes :
         /\ DoCreate(p, o)
         /\ IF o.res = "ok"
            THEN /\ err' = [err EXCEPT ![p] = "nil"]
                 /\ StartAttach(p)
            ELSE /\ err' = [err EXCEPT ![p] = o.res]
                 /\ rsp' = [rsp EXCEPT ![p] = 0]
                 /\ UNCHANGED <<prefix, k, attachDevice, attachTries, lastAttach>>
                 /\ IF o.res = "panic" THEN Return(p, "panic")
                    ELSE IF IsRateLimit(o.res)
                         THEN /\ pc' = [pc EXCEPT ![p] = "createRetry"]
                              /\ UNCHANGED result
                         ELSE Return(p, "err_create")
    /\ UNCHANGED <<active, devNodes, provDevs, foreign, cli, voli, devices,
                 volumes, printed, metaCalls, attachReqs, obsInUse, handed,
                 attOk, dotCalls, waitVars, ddvVars, mountVars, submitVars,
                 findVars, sizeVars>>

\* rsp, err2 = Create(...), after the sleep that follows a rate-limit error
CreateRetry(p) ==
    /\ pc[p] = "createRetry"
    /\ \E o \in CreateOutcomes :
         /\ DoCreate(p, o)
         /\ IF o.res = "ok"
            THEN StartAttach(p)
            ELSE /\ rsp' = [rsp EXCEPT ![p] = 0]
                 /\ UNCHANGED <<prefix, k, attachDevice, attachTries, lastAttach>>
                 /\ Return(p, IF o.res = "panic" THEN "panic" ELSE "err_create")
    /\ UNCHANGED <<active, devNodes, provDevs, foreign, cli, err, voli,
                 devices, volumes, printed, metaCalls, attachReqs, obsInUse,
                 handed, attOk, dotCalls, waitVars, ddvVars, mountVars,
                 submitVars, findVars, sizeVars>>

\* One iteration of the attach loop: findNextDevNode, AttachVolume and the
\* handling of its error.
Attach(p) ==
    /\ pc[p] = "attach"
    /\ LET dev == findNextDevNode(Prefixes[prefix[p]], k[p], devNodes)
       IN  IF dev = NoDev
           THEN /\ Return(p, "panic")
                /\ UNCHANGED <<attachDevice, attachReqs, attachTries, provDevs,
                               volumes, attOk, prefix, k, lastAttach>>
           ELSE \E resp \in AttachResponses(dev, provDevs) :
                  /\ attachDevice' = [attachDevice EXCEPT ![p] = dev]
                  /\ attachReqs' = [attachReqs EXCEPT ![p] = @ \cup {rsp[p]}]
                  /\ attachTries' = [attachTries EXCEPT ![p][prefix[p]] = @ + 1]
                  /\ lastAttach' = [lastAttach EXCEPT ![p] = resp]
                  /\ provDevs' = IF resp \in {"ok", "inuse"}
                                 THEN provDevs \cup {dev} ELSE provDevs
                  /\ IF ~AttachFailed(resp)
                     THEN /\ volumes' = [volumes EXCEPT ![p] = Append(@, rsp[p])]
                          /\ attOk' = [attOk EXCEPT ![p] = @ \cup {dev}]
                          /\ pc' = [pc EXCEPT ![p] = "waitInUse"]
                          /\ UNCHANGED <<result, prefix, k>>
                     ELSE /\ UNCHANGED <<volumes, attOk>>
                          /\ IF ~IsInUse(resp) THEN /\ Return(p, "err_attach")
                                                    /\ UNCHANGED <<prefix, k>>
                             ELSE IF k[p] + 1 < KLimit
                                  THEN /\ k' = [k EXCEPT ![p] = @ + 1]
                                       /\ UNCHANGED <<pc, result, prefix>>
                             ELSE IF prefix[p] < Len(Prefixes)
                                  THEN /\ prefix' = [prefix EXCEPT ![p] = @ + 1]
                                       /\ k' = [k EXCEPT ![p] = 1]
                                       /\ UNCHANGED <<pc, result>>
                             ELSE /\ Return(p, "err_unable")
                                  /\ UNCHANGED <<prefix, k>>
    /\ UNCHANGED <<active, devNodes, nextVol, foreign, cli, err, voli, rsp,
                 devices, printed, metaCalls, cpIssued, createTries,
                 createLog, created, obsAvail, obsInUse, handed, dotCalls,
                 waitVars, ddvVars, mountVars, submitVars, findVars,
                 sizeVars>>

\* WaitForVolumeStatus(svc, rsp.VolumeId, "in-use")
WaitInUse(p) ==
    /\ pc[p] = "waitInUse"
    /\ \E w \in WaitResults("in-use") :
         /\ obsInUse' = [obsInUse EXCEPT
                           ![p] = IF w.obs = "in-use" THEN @ \cup {rsp[p]} ELSE @]
         /\ IF w.res = "ok"
            THEN /\ pc' = [pc EXCEPT ![p] = "waitDevice"]
                 /\ UNCHANGED result
            ELSE Return(p, IF w.res = "panic" THEN "panic" ELSE "err_wait")
    /\ UNCHANGED <<active, devNodes, provDevs, nextVol, foreign, cli, err,
                 voli, rsp, prefix, k, attachDevice, devices, volumes,
                 printed, metaCalls, cpIssued, createTries, createLog,
                 created, attachTries, attachReqs, obsAvail, handed, attOk,
                 dotCalls, lastAttach, waitVars, ddvVars, mountVars,
                 submitVars, findVars, sizeVars>>

\* waitForDevice(attachDevice): the device node shows up within the 30 checks
\* or it does not; then `return nil, err` with the function-level err.
WaitDevice(p) ==
    /\ pc[p] = "waitDevice"
    /\ \E appears \in BOOLEAN :
         IF appears
         THEN /\ devNodes' = devNodes \cup {attachDevice[p]}
              /\ devices' = [devices EXCEPT ![p] = Append(@, attachDevice[p])]
              /\ handed' = [handed EXCEPT ![p] = @ \cup {rsp[p]}]
              /\ IF ~MarksDelete(cli[p].Keep)
                 THEN NextVolume(p)
                 ELSE /\ pc' = [pc EXCEPT ![p] = "dot"]
                      /\ UNCHANGED voli
              /\ UNCHANGED result
         ELSE /\ Return(p, IF err[p] = "nil" THEN "nil_nil" ELSE "err_stale")
              /\ UNCHANGED <<devNodes, devices, handed, voli>>
    /\ UNCHANGED <<active, provDevs, nextVol, foreign, cli, err, rsp, prefix,
                 k, attachDevice, volumes, printed, metaCalls, cpIssued,
                 createTries, createLog, created, attachTries, attachReqs,
                 obsAvail, obsInUse, attOk, dotCalls, lastAttach, waitVars,
                 ddvVars, mountVars, submitVars, findVars, sizeVars>>

\* DeleteOnTermination(svc, iid.InstanceId, *rsp.VolumeId, attachDevice)
MarkDelete(p) ==
    /\ pc[p] = "dot"
    /\ dotCalls' = [dotCalls EXCEPT ![p] = Append(@, <<rsp[p], attachDevice[p]>>)]
    /\ \E ok \in BOOLEAN :
         IF ok THEN /\ NextVolume(p)
                    /\ UNCHANGED result
         ELSE /\ Return(p, "err_dot")
              /\ UNCHANGED voli
    /\ UNCHANGED <<active, devNodes, provDevs, nextVol, foreign, cli, err,
                 rsp, prefix, k, attachDevice, devices, volumes, printed,
                 metaCalls, cpIssued, createTries, createLog, created,
                 attachTries, attachReqs, obsAvail, obsInUse, handed, attOk,
                 lastAttach, waitVars, ddvVars, mountVars, submitVars,
                 findVars, sizeVars>>

\* fmt.Println(volumes), makeDir(cli.MountPoint), return devices
Finish(p) ==
    /\ pc[p] = "finish"
    /\ printed' = [printed EXCEPT ![p] = volumes[p]]
    /\ \E ok \in BOOLEAN :
         /\ err' = [err EXCEPT ![p] = IF ok THEN "nil" ELSE "mkdir"]
         /\ Return(p, IF ok THEN "ok" ELSE "err_mkdir")
    /\ UNCHANGED <<active, devNodes, provDevs, nextVol, foreign, cli, voli,
                 rsp, prefix, k, attachDevice, devices, volumes, metaCalls,
                 cpIssued, createTries, createLog, created, attachTries,
                 attachReqs, obsAvail, obsInUse, handed, attOk, dotCalls,
                 lastAttach, waitVars, ddvVars, mountVars, submitVars,
                 findVars, sizeVars>>

ProvNext ==
    \E p \in Procs :
        \/ Start(p)
        \/ Validate(p)
        \/ CreateFirst(p)
        \/ CreateRetry(p)
        \/ Attach(p)
        \/ WaitInUse(p)
        \/ WaitDevice(p)
        \/ MarkDelete(p)
        \/ Finish(p)

----------------------------------------------------------------------------
(* ddv: Main starts one DetachAndDelete goroutine per volume id.           *)

\* the number of volume ids on the command line
NVids == 2

Vids == 1..NVids

\* the value of exitStatus while the process runs
NotExited == 0 - 1

\* the regions DetachAndDelete probes, in order
Regions == <<"us-east-1", "us-east-2", "us-west-1", "us-west-2", "ap-south-1",
             "ap-northeast-2", "ap-northeast-1", "ca-central-1", "cn-north-1",
             "eu-west-1", "eu-west-2", "sa-east-1", "us-gov-west-1",
             "ap-southeast-1", "ap-southeast-2">>

\* where a volume id of the command line may live: nowhere, or in the first or
\* the last region of the list
Homes == {0, 1, Len(Regions)}

DescribeOkAnywhere(v, r) == home[v] # 0

\* A describe call for the volume in region r succeeds where the volume lives.
DescribeOk(v, r) == home[v] = r

\* What DetachVolume may answer for a volume in provider state st: "ok", the
\* error "is in the 'available' state" ("avail"), or another error together with
\* the returned *VolumeAttachment v: nil, one without a State, one in state
\* available, one in another state.
DetachAnswers(st) ==
    IF st = "available" THEN {"avail"}
    ELSE {"ok", "err_nil", "err_nostate", "err_available", "err_busy"}

DetachBreaksOnAny(a) == a # "ok"

DetachBreaksNever(a) == FALSE

\* the two `break`s after a failed detach: the error names the 'available'
\* state, or v != nil && *v.State == "available"
DetachBreaks(a) == a \in {"avail", "err_available"}

ProbeFailsNilOnly(d, e) == d = "nil"

\* after the region loop: if drsp == nil { return not found }; if err != nil
\* { return err }
ProbeFails(d, e) == d = "nil" \/ e # "nil"

DdvInit ==
    /\ home \in [Vids -> Homes]
    /\ pvol \in [Vids -> {"absent", "in-use", "available"}]
    /\ \A v \in Vids : (home[v] = 0) <=> (pvol[v] = "absent")
    /\ mpc = "spawn"
    /\ spawned = 0
    /\ tpc = [v \in Vids |-> "idle"]
    /\ tregion = [v \in Vids |-> 1]
    /\ tdrsp = [v \in Vids |-> "nil"]
    /\ terr = [v \in Vids |-> "nil"]
    /\ tres = [v \in Vids |-> "none"]
    /\ probes = [v \in Vids |-> <<>>]
    /\ detachCalls = [v \in Vids |-> 0]
    /\ waitCalls = [v \in Vids |-> 0]
    /\ deleteCalls = [v \in Vids |-> 0]
    /\ sawAvail = [v \in Vids |-> "no"]
    /\ callRegions = [v \in Vids |-> {}]
    /\ exitStatus = NotExited
    /\ detachAns = [v \in Vids |-> "none"]

\* DetachAndDelete returns r; the goroutine logs and calls wg.Done().
TaskReturn(v, r) ==
    /\ tres' = [tres EXCEPT ![v] = r]
    /\ tpc' = [tpc EXCEPT ![v] = "done"]

\* A panic in the goroutine of v ends the process: the goroutines still
\* running and Main are killed.
Panic(v) ==
    /\ tres' = [tres EXCEPT ![v] = "panic"]
    /\ tpc' = [u \in Vids |-> IF u = v THEN "done"
                              ELSE IF tpc[u] = "done" THEN "done" ELSE "killed"]
    /\ mpc' = "crashed"
    /\ exitStatus' = 2

\* go func(vid string) {...}(vid), for the next argument; then wg.Wait()
Spawn ==
    /\ mpc = "spawn"
    /\ spawned' = spawned + 1
    /\ tpc' = [tpc EXCEPT ![spawned + 1] = "probe"]
    /\ mpc' = IF spawned + 1 = NVids THEN "wait" ELSE "spawn"
    /\ UNCHANGED <<home, pvol, tregion, tdrsp, terr, tres, probes,
                 detachCalls, waitCalls, deleteCalls, sawAvail, callRegions,
                 exitStatus, detachAns, waitVars, provVars, mountVars,
                 submitVars, findVars, sizeVars>>

\* One iteration of the region loop, and what follows the loop when it ends.
Probe(v) ==
    /\ tpc[v] = "probe"
    /\ probes' = [probes EXCEPT ![v] = Append(@, tregion[v])]
    /\ IF DescribeOk(v, tregion[v])
       THEN /\ tdrsp' = [tdrsp EXCEPT ![v] = "set"]
            /\ terr' = [terr EXCEPT ![v] = "nil"]
            /\ tpc' = [tpc EXCEPT ![v] = "detach"]
            /\ UNCHANGED <<tregion, tres>>
       ELSE /\ terr' = [terr EXCEPT ![v] = "describe"]
            /\ IF tregion[v] < Len(Regions)
               THEN /\ tregion' = [tregion EXCEPT ![v] = @ + 1]
                    /\ UNCHANGED <<tdrsp, tpc, tres>>
               ELSE \* whether a failed describe call returns a nil output is
                    \* the SDK's choice
                    \E d \in {"nil", "set"} :
                      /\ tdrsp' = [tdrsp EXCEPT ![v] = d]
                      /\ UNCHANGED tregion
                      /\ IF ProbeFails(d, "describe")
                         THEN TaskReturn(v, IF d = "nil" THEN "err_notfound"
                                            ELSE "err_describe")
                         ELSE /\ tpc' = [tpc EXCEPT ![v] = "detach"]
                              /\ UNCHANGED tres
    /\ UNCHANGED <<home, pvol, mpc, spawned, detachCalls, waitCalls,
                 deleteCalls, sawAvail, callRegions, exitStatus, detachAns,
                 waitVars, provVars, mountVars, submitVars, findVars,
                 sizeVars>>

\* svc.DetachVolume(dtvi) and the tests that follow it
Detach(v) ==
    /\ tpc[v] = "detach"
    /\ detachCalls' = [detachCalls EXCEPT ![v] = @ + 1]
    /\ callRegions' = [callRegions EXCEPT ![v] = @ \cup {tregion[v]}]
    /\ \E a \in DetachAnswers(pvol[v]) :
         /\ terr' = [terr EXCEPT ![v] = IF a = "ok" THEN "nil" ELSE "detach"]
         /\ detachAns' = [detachAns EXCEPT ![v] = a]
         /\ IF a = "ok"
            THEN /\ pvol' = [pvol EXCEPT ![v] = "detaching"]
                 /\ tpc' = [tpc EXCEPT ![v] = "wait"]
                 /\ UNCHANGED <<tres, mpc, sawAvail, exitStatus>>
            ELSE /\ UNCHANGED pvol
                 /\ IF a = "err_nostate"
                    THEN /\ Panic(v)
                         /\ UNCHANGED sawAvail
                    ELSE IF DetachBreaks(a)
                         THEN /\ tpc' = [tpc EXCEPT ![v] = "delete"]
                              /\ sawAvail' = [sawAvail EXCEPT
                                    ![v] = IF a \in {"avail", "err_available"}
                                           THEN "report" ELSE @]
                              /\ UNCHANGED <<tres, mpc, exitStatus>>
                         ELSE /\ TaskReturn(v, "err_detach")
                              /\ UNCHANGED <<mpc, sawAvail, exitStatus>>
    /\ UNCHANGED <<home, spawned, tregion, tdrsp, probes, waitCalls,
                 deleteCalls, waitVars, provVars, mountVars, submitVars,
                 findVars, sizeVars>>

\* exsmount.WaitForVolumeStatus(svc, &vid, "available")
WaitAvailable(v) ==
    /\ tpc[v] = "wait"
    /\ waitCalls' = [waitCalls EXCEPT ![v] = @ + 1]
    /\ callRegions' = [callRegions EXCEPT ![v] = @ \cup {tregion[v]}]
    /\ \E w \in WaitResults("available") :
         IF w.res = "ok"
         THEN /\ pvol' = [pvol EXCEPT ![v] = "available"]
              /\ sawAvail' = [sawAvail EXCEPT
                                ![v] = IF w.obs = "available" THEN "poll" ELSE @]
              /\ tpc' = [tpc EXCEPT ![v] = "delete"]
              /\ UNCHANGED <<tres, mpc, terr, exitStatus>>
         ELSE /\ UNCHANGED <<pvol, sawAvail>>
              /\ IF w.res = "panic"
                 THEN /\ Panic(v)
                      /\ UNCHANGED terr
                 ELSE /\ TaskReturn(v, "err_wait")
                      /\ terr' = [terr EXCEPT ![v] = w.res]
                      /\ UNCHANGED <<mpc, exitStatus>>
    /\ UNCHANGED <<home, spawned, tregion, tdrsp, probes, detachCalls,
                 deleteCalls, detachAns, waitVars, provVars, mountVars,
                 submitVars, findVars, sizeVars>>

\* svc.DeleteVolume(...)
Delete(v) ==
    /\ tpc[v] = "delete"
    /\ deleteCalls' = [deleteCalls EXCEPT ![v] = @ + 1]
    /\ callRegions' = [callRegions EXCEPT ![v] = @ \cup {tregion[v]}]
    /\ \E ok \in BOOLEAN :
         /\ pvol' = [pvol EXCEPT ![v] = IF ok THEN "deleted" ELSE @]
         /\ TaskReturn(v, IF ok THEN "deleted" ELSE "err_delete")
    /\ UNCHANGED <<home, mpc, spawned, tregion, tdrsp, terr, probes,
                 detachCalls, waitCalls, sawAvail, exitStatus, detachAns,
                 waitVars, provVars, mountVars, submitVars, findVars,
                 sizeVars>>

\* wg.Wait() returns when every goroutine has called wg.Done(); Main returns
\* and the process exits with status 0, whatever the goroutines logged.
MainReturn ==
    /\ mpc = "wait"
    /\ \A v \in Vids : tpc[v] = "done"
    /\ mpc' = "exit"
    /\ exitStatus' = 0
    /\ UNCHANGED <<home, pvol, spawned, tpc, tregion, tdrsp, terr, tres,
                 probes, detachCalls, waitCalls, deleteCalls, sawAvail,
                 callRegions, detachAns, waitVars, provVars, mountVars,
                 submitVars, findVars, sizeVars>>

DdvNext ==
    \/ Spawn
    \/ MainReturn
    \/ \E v \in Vids :
         \/ Probe(v)
         \/ Detach(v)
         \/ WaitAvailable(v)
         \/ Delete(v)

DdvIdle ==
    /\ home = [v \in Vids |-> 0]
    /\ pvol = [v \in Vids |-> "absent"]
    /\ mpc = "off"
    /\ spawned = 0
    /\ tpc = [v \in Vids |-> "idle"]
    /\ tregion = [v \in Vids |-> 1]
    /\ tdrsp = [v \in Vids |-> "nil"]
    /\ terr = [v \in Vids |-> "nil"]
    /\ tres = [v \in Vids |-> "none"]
    /\ probes = [v \in Vids |-> <<>>]
    /\ detachCalls = [v \in Vids |-> 0]
    /\ waitCalls = [v \in Vids |-> 0]
    /\ deleteCalls = [v \in Vids |-> 0]
    /\ sawAvail = [v \in Vids |-> "no"]
    /\ callRegions = [v \in Vids |-> {}]
    /\ exitStatus = NotExited
    /\ detachAns = [v \in Vids |-> "none"]

----------------------------------------------------------------------------
(* MountLocal: localmount, and the second half of ebsmount.                *)
(* A device path is a sequence: the stem after "/dev/" (no digit in it),   *)
(* then one element per trailing digit character.                          *)

\* the largest number of candidates on the command line
MaxCand == 3

DigitChars == <<"0", "1", "2", "3", "4", "5", "6", "7", "8", "9">>

\* '0' <= v && v <= '9'
IsDigit(c) == \E i \in 1..Len(DigitChars) : DigitChars[i] = c

\* the device paths the candidates are drawn from: two disks, and the first
\* and the tenth partition of one of them
DevNames == { <<"xvdb">>, <<"xvdb", "1">>, <<"xvdb", "1", "0">>, <<"xvdc">> }

\* the number of /dev/md paths MountLocal tries
MdLimit == 20

\* fmt.Sprintf("/dev/md%d", i)
MdPath(i) ==
    IF i < 10 THEN <<"md", DigitChars[i + 1]>>
    ELSE <<"md", DigitChars[(i \div 10) + 1], DigitChars[(i % 10) + 1]>>

MdPaths == { MdPath(i) : i \in 0..(MdLimit - 1) }

\* raidDev == ""
NoPath == <<>>

\* --fstype of ebsmount; localmount has no such argument
FSTypes == {"ext4", "xfs"}

\* the loop of mountedDevices that drops the trailing digits of a device:
\* the stem is never dropped
RECURSIVE TrimDigits(_)
TrimDigits(dev) ==
    IF Len(dev) > 1 /\ IsDigit(dev[Len(dev)])
    THEN TrimDigits(SubSeq(dev, 1, Len(dev) - 1))
    ELSE dev

mountedDevicesAsListed(table) == table

\* the in-use set read from the mount table: every device of the table and
\* the device without its trailing digits
mountedDevices(table) == table \cup { TrimDigits(d) : d \in table }

contains(haystack, needle) == \E i \in 1..Len(haystack) : haystack[i] = needle

\* sub := dev[:len(dev)-1]; a stem cut short is the path of no candidate
Sub(dev) == SubSeq(dev, 1, Len(dev) - 1)

IsMountedNever(dev, used) == FALSE

\* _, ok := inUse[dev]
IsMounted(dev, used) == dev \in used

StopsScanNever(dev, exist) == FALSE

\* _, err := os.Stat(dev) with os.IsNotExist(err): the `break` of the loop
StopsScan(dev, exist) == dev \notin exist

\* The scan of the candidates from position i on, devs collected so far.
RECURSIVE SelectFrom(_, _, _, _, _)
SelectFrom(cands, i, exist, used, devs) ==
    IF i > Len(cands) THEN devs
    ELSE LET dev == cands[i]
         IN  IF contains(cands, Sub(dev))
             THEN SelectFrom(cands, i + 1, exist, used, devs)
             ELSE IF StopsScan(dev, exist) THEN devs
             ELSE IF IsMounted(dev, used)
             THEN SelectFrom(cands, i + 1, exist, used, devs)
             ELSE SelectFrom(cands, i + 1, exist, used, Append(devs, dev))

PlainPathAlways(n, hasMdadm) == TRUE

PlainPathWithoutToolOnly(n, hasMdadm) == ~hasMdadm

\* _, err := exec.LookPath("mdadm"); err != nil || len(devices) == 1
PlainPath(n, hasMdadm) == ~hasMdadm \/ n = 1

FirstFreeMdUnchecked(exist) == MdPath(0)

\* the first /dev/md path that does not exist, NoPath when all 20 exist
FirstFreeMd(exist) ==
    LET free == { i \in 0..(MdLimit - 1) : MdPath(i) \notin exist }
    IN  IF free = {} THEN NoPath
        ELSE MdPath(CHOOSE i \in free : \A j \in free : i <= j)

\* "ext4", the literal MountLocal hands to mkfs
MkfsType(requested) == "ext4"

\* The name under which the mount table lists a mounted device: the path it
\* was mounted by, or (on hosts whose kernel names devices otherwise, as
\* /dev/sdf and /dev/xvdf) another path.
TableName(dev, renamed) ==
    IF renamed /\ dev \notin MdPaths THEN <<"alt">> \o dev ELSE dev

\* mkfs -t fstype dev: it refuses a mounted device with 'is mounted' and a
\* member of an array with another message; otherwise it may still fail.
MkfsOutcomes(dev, mnt, mem) ==
    IF dev \in mnt THEN {"mounted"}
    ELSE IF dev \in mem THEN {"fail"}
    ELSE {"ok", "fail"}

\* mdadm --create refuses devices that are mounted or already in an array
MdadmOutcomes(devs, mnt, mem) ==
    IF \E i \in 1..Len(devs) : devs[i] \in mnt \cup mem THEN {"fail"}
    ELSE {"ok", "fail"}

\* the candidate lists: no path twice
CandLists ==
    UNION { { s \in [1..n -> DevNames] : \A i, j \in 1..n : s[i] = s[j] => i = j }
              : n \in 0..MaxCand }

\* what ebsmount hands over: the devices CreateAttach returned (none after
\* its return of no devices and no error), and the requested fstype
Invocations ==
    { [prog |-> "localmount", fs |-> "ext4", cands |-> c] : c \in CandLists }
    \cup
    { [prog |-> "ebsmount", fs |-> f, cands |-> c] :
        f \in FSTypes, c \in { s \in CandLists : \A i \in 1..Len(s) : Len(s[i]) = 1 } }

\* the hosts: all device devFiles or all but one exist, at most one device is
\* mounted already, mdadm may be installed, and /dev/md paths may be taken
Hosts ==
    { [exist |-> e \cup m, mnt |-> u, tool |-> t, ren |-> r] :
        e \in {DevNames} \cup { DevNames \ {d} : d \in DevNames },
        m \in { {}, {MdPath(0)}, MdPaths },
        u \in {{}} \cup { {d} : d \in DevNames },
        t \in BOOLEAN, r \in BOOLEAN }

NoPrior == [ran |-> FALSE, res |-> "none", mounts |-> <<>>]

MountInit ==
    /\ \E v \in Invocations :
         /\ prog = v.prog
         /\ fsType = v.fs
         /\ deviceCandidates = v.cands
    /\ \E h \in Hosts :
         /\ h.mnt \subseteq h.exist
         /\ (~h.tool => h.exist \cap MdPaths = {})
         /\ devFiles = h.exist
         /\ mounted = h.mnt
         /\ mtab = { TableName(d, h.ren) : d \in h.mnt }
         /\ mdadm = h.tool
         /\ renames = h.ren
    /\ members = {}
    /\ lpc = "scan"
    /\ inUse = {}
    /\ mdevices = <<>>
    /\ mi = 0
    /\ raidDev = NoPath
    /\ mres = "none"
    /\ mret = <<>>
    /\ mexit = NotExited
    /\ prior = NoPrior
    /\ mkfsCalls = <<>>
    /\ mdadmCalls = <<>>
    /\ mountCalls = <<>>

\* MountLocal returns (list, e)
MReturn(list, e) ==
    /\ mret' = list
    /\ mres' = e
    /\ lpc' = "done"

MkfsAbsorbedAny(o) == o # "ok"

\* if err == MountedError { continue }
MkfsAbsorbed(o) == o = "mounted"

\* the end of the body of the loop over devices: the next device, or
\* `return devices, nil`
NextDevice ==
    IF mi + 1 < Len(mdevices)
    THEN /\ mi' = mi + 1
         /\ lpc' = "mkfs"
         /\ UNCHANGED <<mret, mres>>
    ELSE /\ MReturn(mdevices, "nil")
         /\ UNCHANGED mi

\* mountedDevices(), the loop over the candidates, and the choice of the path
Scan ==
    /\ lpc = "scan"
    /\ inUse' = mountedDevices(mtab)
    /\ LET devs == SelectFrom(deviceCandidates, 1, devFiles, mountedDevices(mtab), <<>>)
       IN  /\ mdevices' = devs
           /\ IF Len(devs) = 0
              THEN /\ MReturn(<<>>, "err_nostorage")
                   /\ UNCHANGED raidDev
              ELSE IF PlainPath(Len(devs), mdadm)
              THEN /\ lpc' = "mkfs"
                   /\ UNCHANGED <<raidDev, mret, mres>>
              ELSE /\ raidDev' = FirstFreeMd(devFiles)
                   /\ IF FirstFreeMd(devFiles) = NoPath
                      THEN MReturn(<<>>, "err_nomd")
                      ELSE /\ lpc' = "mdadm"
                           /\ UNCHANGED <<mret, mres>>
    /\ UNCHANGED <<prog, fsType, deviceCandidates, devFiles, mtab, mounted,
                 members, mdadm, renames, mi, mexit, prior, mkfsCalls,
                 mdadmCalls, mountCalls, waitVars, provVars, ddvVars,
                 submitVars, findVars, sizeVars>>

\* mkfs("ext4", dev) of the loop over devices
Mkfs ==
    /\ lpc = "mkfs"
    /\ LET dev == mdevices[mi + 1]
       IN  /\ mkfsCalls' = Append(mkfsCalls, [dev |-> dev, fstype |-> MkfsType(fsType)])
           /\ \E o \in MkfsOutcomes(dev, mounted, members) :
                IF o = "ok" THEN /\ lpc' = "mount"
                                 /\ UNCHANGED <<mi, mret, mres>>
                ELSE IF MkfsAbsorbed(o) THEN NextDevice
                ELSE /\ MReturn(<<>>, "err_mkfs")
                     /\ UNCHANGED mi
    /\ UNCHANGED <<prog, fsType, deviceCandidates, inUse, devFiles, mtab,
                 mounted, members, mdadm, renames, mdevices, raidDev, mexit,
                 prior, mdadmCalls, mountCalls, waitVars, provVars, ddvVars,
                 submitVars, findVars, sizeVars>>

\* makeAndMount(dev, base) of the loop over devices: base, then base_i
Mount ==
    /\ lpc = "mount"
    /\ LET dev == mdevices[mi + 1]
       IN  /\ mountCalls' = Append(mountCalls, [dev |-> dev, at |-> mi])
           /\ \E ok \in BOOLEAN :
                IF ok THEN /\ mounted' = mounted \cup {dev}
                           /\ mtab' = mtab \cup {TableName(dev, renames)}
                           /\ NextDevice
                ELSE /\ MReturn(<<>>, "err_mount")
                     /\ UNCHANGED <<mounted, mtab, mi>>
    /\ UNCHANGED <<prog, fsType, deviceCandidates, inUse, devFiles, members,
                 mdadm, renames, mdevices, raidDev, mexit, prior, mkfsCalls,
                 mdadmCalls, waitVars, provVars, ddvVars, submitVars,
                 findVars, sizeVars>>

\* mdadm --create raidDev --level=stripe --raid-devices=n devices...
Mdadm ==
    /\ lpc = "mdadm"
    /\ mdadmCalls' = Append(mdadmCalls, [raid |-> raidDev, devs |-> mdevices])
    /\ \E o \in MdadmOutcomes(mdevices, mounted, members) :
         IF o = "ok"
         THEN /\ devFiles' = devFiles \cup {raidDev}
              /\ members' = members \cup {mdevices[i] : i \in 1..Len(mdevices)}
              /\ lpc' = "raidMkfs"
              /\ UNCHANGED <<mret, mres>>
         ELSE /\ MReturn(<<>>, "err_mdadm")
              /\ UNCHANGED <<devFiles, members>>
    /\ UNCHANGED <<prog, fsType, deviceCandidates, inUse, mtab, mounted,
                 mdadm, renames, mdevices, mi, raidDev, mexit, prior,
                 mkfsCalls, mountCalls, waitVars, provVars, ddvVars,
                 submitVars, findVars, sizeVars>>

\* mkfs("ext4", raidDev)
RaidMkfs ==
    /\ lpc = "raidMkfs"
    /\ mkfsCalls' = Append(mkfsCalls, [dev |-> raidDev, fstype |-> MkfsType(fsType)])
    /\ \E o \in MkfsOutcomes(raidDev, mounted, members) :
         IF o = "ok" THEN /\ lpc' = "raidMount"
                          /\ UNCHANGED <<mret, mres>>
         ELSE MReturn(<<raidDev>>, IF o = "mounted" THEN "err_ismounted" ELSE "err_mkfs")
    /\ UNCHANGED <<prog, fsType, deviceCandidates, inUse, devFiles, mtab,
                 mounted, members, mdadm, renames, mdevices, mi, raidDev,
                 mexit, prior, mdadmCalls, mountCalls, waitVars, provVars,
                 ddvVars, submitVars, findVars, sizeVars>>

\* return []string{raidDev}, makeAndMount(raidDev, mountBase)
RaidMount ==
    /\ lpc = "raidMount"
    /\ mountCalls' = Append(mountCalls, [dev |-> raidDev, at |-> 0])
    /\ \E ok \in BOOLEAN :
         IF ok THEN /\ mounted' = mounted \cup {raidDev}
                    /\ mtab' = mtab \cup {TableName(raidDev, renames)}
                    /\ MReturn(<<raidDev>>, "nil")
         ELSE /\ MReturn(<<raidDev>>, "err_mount")
              /\ UNCHANGED <<mounted, mtab>>
    /\ UNCHANGED <<prog, fsType, deviceCandidates, inUse, devFiles, members,
                 mdadm, renames, mdevices, mi, raidDev, mexit, prior,
                 mkfsCalls, mdadmCalls, waitVars, provVars, ddvVars,
                 submitVars, findVars, sizeVars>>

\* LocalMain and Main after MountLocal: panic(err) on an error, else the
\* process ends with status 0
MountExit ==
    /\ lpc = "done"
    /\ mexit' = IF mres = "nil" THEN 0 ELSE 2
    /\ lpc' = "exit"
    /\ UNCHANGED <<prog, fsType, deviceCandidates, inUse, devFiles, mtab,
                 mounted, members, mdadm, renames, mdevices, mi, raidDev,
                 mres, mret, prior, mkfsCalls, mdadmCalls, mountCalls,
                 waitVars, provVars, ddvVars, submitVars, findVars, sizeVars>>

\* The same command is run once more on the host as the first run left it.
Rerun ==
    /\ lpc = "exit"
    /\ ~prior.ran
    /\ prior' = [ran |-> TRUE, res |-> mres, mounts |-> mountCalls]
    /\ lpc' = "scan"
    /\ inUse' = {}
    /\ mdevices' = <<>>
    /\ mi' = 0
    /\ raidDev' = NoPath
    /\ mres' = "none"
    /\ mret' = <<>>
    /\ mexit' = NotExited
    /\ mkfsCalls' = <<>>
    /\ mdadmCalls' = <<>>
    /\ mountCalls' = <<>>
    /\ UNCHANGED <<prog, fsType, deviceCandidates, devFiles, mtab, mounted,
                 members, mdadm, renames, waitVars, provVars, ddvVars,
                 submitVars, findVars, sizeVars>>

MountNext ==
    \/ Scan
    \/ Mkfs
    \/ Mount
    \/ Mdadm
    \/ RaidMkfs
    \/ RaidMount
    \/ MountExit
    \/ Rerun

MountIdle ==
    /\ prog = "none"
    /\ fsType = "ext4"
    /\ deviceCandidates = <<>>
    /\ devFiles = {}
    /\ mtab = {}
    /\ mounted = {}
    /\ members = {}
    /\ mdadm = FALSE
    /\ renames = FALSE
    /\ lpc = "off"
    /\ inUse = {}
    /\ mdevices = <<>>
    /\ mi = 0
    /\ raidDev = NoPath
    /\ mres = "none"
    /\ mret = <<>>
    /\ mexit = NotExited
    /\ prior = NoPrior
    /\ mkfsCalls = <<>>
    /\ mdadmCalls = <<>>
    /\ mountCalls = <<>>

----------------------------------------------------------------------------
(* submit: the job command generated for --ebs and --volumes, run by the   *)
(* job's shell (bash, `set -Eeuo pipefail`), one step per line.            *)

\* the volume ids ebsmount may print: none, one volume, two volumes
PrintedIds == { {}, {1}, {1, 2} }

\* the trap commands the generated lines install
NoTrap == "none"

EbsTrap(sig) ==
    IF sig = "INT" THEN "cleanup_volume INT"
    ELSE IF sig = "TERM" THEN "cleanup_volume TERM"
    ELSE "cleanup_volume EXIT"

TmpTrap == "cleanup_volume EXIT; cleanup;"

\* the lines of ebsCmd, present when --ebs is given
EbsLines(ebs) ==
    IF ebs THEN <<"export vid=$(batchit ebsmount)", "echo vid", "cleanup_volume(); trap INT TERM EXIT">>
    ELSE <<>>

\* the lines of getTmp, present when --volumes is given
TmpLines(vols) ==
    IF vols THEN <<"export TMPDIR", "cleanup()", "trap EXIT", "mkdir", "mount --bind", "cd">>
    ELSE <<>>

\* The generated command: the default cleanup_volume, the ebs lines, the
\* lines of getTmp, then the job script.
JobCommand(ebs, vols) ==
    <<"cleanup_volume() default">> \o EbsLines(ebs) \o TmpLines(vols) \o <<"$BATCH_SCRIPT">>

\* the lines that can fail and, under `set -e`, end the shell
MayFail == {"mkdir", "mount --bind", "cd", "$BATCH_SCRIPT"}

\* the calls of `batchit ddv $vid` after the commands of an EXIT trap ran
DdvAfterTrap(trap, def, calls, ids) ==
    IF trap # NoTrap /\ def = "ddv" THEN Append(calls, ids) ELSE calls

SubmitInit ==
    /\ sEbs \in BOOLEAN
    /\ sVolumes \in BOOLEAN
    /\ commands = JobCommand(sEbs, sVolumes)
    /\ spc = 1
    /\ shell = "running"
    /\ ebsPhase = "idle"
    /\ cvDef = "unset"
    /\ trapExit = NoTrap
    /\ trapInt = NoTrap
    /\ trapTerm = NoTrap
    /\ vid = {}
    /\ vidPrinted = {}
    /\ ddvCalls = <<>>
    /\ tmpCleaned = FALSE

\* The shell ends (how: "exited" or "killed") and runs its EXIT trap.
ExitShell(how) ==
    /\ shell' = how
    /\ ddvCalls' = DdvAfterTrap(trapExit, cvDef, ddvCalls, vid)
    /\ tmpCleaned' = (trapExit = TmpTrap)

\* export vid=$(batchit ebsmount ...): ebsmount runs and prints the ids of
\* its volumes (none when it fails before the print); it goes on to format
\* and mount.
EbsmountPrints ==
    /\ shell = "running"
    /\ spc <= Len(commands)
    /\ commands[spc] = "export vid=$(batchit ebsmount)"
    /\ ebsPhase = "idle"
    /\ \E ids \in PrintedIds : vidPrinted' = ids
    /\ ebsPhase' = "printed"
    /\ UNCHANGED <<sEbs, sVolumes, commands, spc, shell, cvDef, trapExit,
                 trapInt, trapTerm, vid, ddvCalls, tmpCleaned, waitVars,
                 provVars, ddvVars, mountVars, findVars, sizeVars>>

\* ebsmount ends, with or without an error: export succeeds either way and
\* vid holds what was printed.
EbsmountReturns ==
    /\ shell = "running"
    /\ spc <= Len(commands)
    /\ commands[spc] = "export vid=$(batchit ebsmount)"
    /\ ebsPhase = "printed"
    /\ vid' = vidPrinted
    /\ ebsPhase' = "done"
    /\ spc' = spc + 1
    /\ UNCHANGED <<sEbs, sVolumes, commands, shell, cvDef, trapExit, trapInt,
                 trapTerm, vidPrinted, ddvCalls, tmpCleaned, waitVars,
                 provVars, ddvVars, mountVars, findVars, sizeVars>>

\* the lines that define functions and install traps
Define ==
    /\ shell = "running"
    /\ spc <= Len(commands)
    /\ LET c == commands[spc]
       IN  /\ c \in {"cleanup_volume() default", "cleanup_volume(); trap INT TERM EXIT",
                     "trap EXIT", "echo vid", "export TMPDIR", "cleanup()"}
           /\ cvDef' = IF c = "cleanup_volume() default" THEN "default"
                       ELSE IF c = "cleanup_volume(); trap INT TERM EXIT" THEN "ddv"
                       ELSE cvDef
           /\ trapInt' = IF c = "cleanup_volume(); trap INT TERM EXIT"
                         THEN EbsTrap("INT") ELSE trapInt
           /\ trapTerm' = IF c = "cleanup_volume(); trap INT TERM EXIT"
                          THEN EbsTrap("TERM") ELSE trapTerm
           /\ trapExit' = IF c = "cleanup_volume(); trap INT TERM EXIT"
                          THEN EbsTrap("EXIT")
                          ELSE IF c = "trap EXIT" THEN TmpTrap ELSE trapExit
    /\ spc' = spc + 1
    /\ UNCHANGED <<sEbs, sVolumes, commands, shell, ebsPhase, vid,
                 vidPrinted, ddvCalls, tmpCleaned, waitVars, provVars,
                 ddvVars, mountVars, findVars, sizeVars>>

\* a line that may fail: under `set -e` a failure ends the shell
Run ==
    /\ shell = "running"
    /\ spc <= Len(commands)
    /\ commands[spc] \in MayFail
    /\ \E ok \in BOOLEAN :
         IF ok THEN /\ spc' = spc + 1
                    /\ UNCHANGED <<shell, ddvCalls, tmpCleaned>>
         ELSE /\ ExitShell("exited")
              /\ UNCHANGED spc
    /\ UNCHANGED <<sEbs, sVolumes, commands, ebsPhase, cvDef, trapExit,
                 trapInt, trapTerm, vid, vidPrinted, waitVars, provVars,
                 ddvVars, mountVars, findVars, sizeVars>>

\* the last line has run: the shell exits
End ==
    /\ shell = "running"
    /\ spc > Len(commands)
    /\ ExitShell("exited")
    /\ UNCHANGED <<sEbs, sVolumes, commands, spc, ebsPhase, cvDef, trapExit,
                 trapInt, trapTerm, vid, vidPrinted, waitVars, provVars,
                 ddvVars, mountVars, findVars, sizeVars>>

\* INT or TERM reaches the shell. With the trap of the ebs line installed,
\* cleanup_volume runs ddv, removes the traps of the signal and of EXIT and
\* sends the signal again; without a trap for the signal the shell ends, and
\* bash runs the EXIT trap on its way out.
Signal ==
    /\ shell = "running"
    /\ \E sig \in {"INT", "TERM"} :
         LET trap == IF sig = "INT" THEN trapInt ELSE trapTerm
         IN  IF trap = NoTrap
             THEN /\ ExitShell("killed")
                  /\ UNCHANGED <<trapExit, trapInt, trapTerm>>
             ELSE /\ ddvCalls' = DdvAfterTrap(trap, cvDef, ddvCalls, vid)
                  /\ trapExit' = NoTrap
                  /\ trapInt' = IF sig = "INT" THEN NoTrap ELSE trapInt
                  /\ trapTerm' = IF sig = "TERM" THEN NoTrap ELSE trapTerm
                  /\ shell' = "killed"
                  /\ UNCHANGED tmpCleaned
    /\ UNCHANGED <<sEbs, sVolumes, commands, spc, ebsPhase, cvDef, vid,
                 vidPrinted, waitVars, provVars, ddvVars, mountVars,
                 findVars, sizeVars>>

SubmitNext ==
    \/ EbsmountPrints
    \/ EbsmountReturns
    \/ Define
    \/ Run
    \/ End
    \/ Signal

SubmitIdle ==
    /\ sEbs = FALSE
    /\ sVolumes = FALSE
    /\ commands = <<>>
    /\ spc = 1
    /\ shell = "off"
    /\ ebsPhase = "idle"
    /\ cvDef = "unset"
    /\ trapExit = NoTrap
    /\ trapInt = NoTrap
    /\ trapTerm = NoTrap
    /\ vid = {}
    /\ vidPrinted = {}
    /\ ddvCalls = <<>>
    /\ tmpCleaned = FALSE

----------------------------------------------------------------------------
(* findNextDevNode as a function of its arguments and of the host's paths. *)

\* The paths that exist under a prefix: the first n letters, or the first n
\* letters but one.
FindNodeSets(pre) ==
    { {<<pre, c>> : c \in 0..(n - 1)} : n \in 0..NLetters }
    \cup
    { {<<pre, c>> : c \in (0..(n - 1)) \ {h}} : n \in 1..NLetters, h \in {0, 1, 2, 5} }

FindInit ==
    /\ fnPrefix \in 1..Len(Prefixes)
    /\ fnFrom \in 0..NLetters
    /\ fnNodes \in FindNodeSets(Prefixes[fnPrefix])
    /\ fnDone = FALSE
    /\ fnOut = NoDev

\* findNextDevNode(prefix, letters[from:])
FindCall ==
    /\ ~fnDone
    /\ fnOut' = findNextDevNode(Prefixes[fnPrefix], fnFrom, fnNodes)
    /\ fnDone' = TRUE
    /\ UNCHANGED <<fnPrefix, fnFrom, fnNodes, waitVars, provVars, ddvVars,
                 mountVars, submitVars, sizeVars>>

FindNext == FindCall

FindIdle ==
    /\ fnPrefix = 1
    /\ fnFrom = 0
    /\ fnNodes = {}
    /\ fnDone = FALSE
    /\ fnOut = NoDev

----------------------------------------------------------------------------
(* The split of the requested size over the N volumes, on its own.         *)

\* the largest --size tried
MaxSplitSize == 40

\* Main rejects cli.N > 16 || cli.N < 1
NLimit == 16

SizeInit ==
    /\ reqSize \in 1..MaxSplitSize
    /\ reqN \in 1..NLimit
    /\ splitDone = FALSE
    /\ perVolume = 0

\* cli.Size = int64(float64(cli.Size)/float64(cli.N) + 0.5)
Split ==
    /\ ~splitDone
    /\ perVolume' = SplitSize(reqSize, reqN)
    /\ splitDone' = TRUE
    /\ UNCHANGED <<reqSize, reqN, waitVars, provVars, ddvVars, mountVars,
                 submitVars, findVars>>

SizeNext == Split

SizeIdle ==
    /\ reqSize = 1
    /\ reqN = 1
    /\ splitDone = FALSE
    /\ perVolume = 0

----------------------------------------------------------------------------
(* The specifications.                                                     *)

WaitIdle ==
    /\ wstatus = "none"
    /\ wi = 0
    /\ wx = "none"
    /\ wres = "off"
    /\ wmsg = "none"
    /\ wcalls = 0
    /\ wlast = "none"
    /\ wslept = 0

ProvIdle ==
    /\ active = {}
    /\ foreign = FALSE
    /\ devNodes = {}
    /\ \E c \in RaceCliSet : c.Keep /\ cli = [p \in Procs |-> c]
    /\ ProvInitCommon

WaitNext == Poll /\ UNCHANGED <<provVars, ddvVars, mountVars, submitVars, findVars, sizeVars>>

Init == ProvInit /\ WaitIdle /\ DdvIdle /\ MountIdle /\ SubmitIdle /\ FindIdle /\ SizeIdle

InitRace == RaceInit /\ WaitIdle /\ DdvIdle /\ MountIdle /\ SubmitIdle /\ FindIdle /\ SizeIdle

InitWait == WaitInit /\ ProvIdle /\ DdvIdle /\ MountIdle /\ SubmitIdle /\ FindIdle /\ SizeIdle

InitDdv == DdvInit /\ WaitIdle /\ ProvIdle /\ MountIdle /\ SubmitIdle /\ FindIdle /\ SizeIdle

InitSubmit == SubmitInit /\ WaitIdle /\ ProvIdle /\ DdvIdle /\ MountIdle /\ FindIdle /\ SizeIdle

InitFind ==
    FindInit /\ WaitIdle /\ ProvIdle /\ DdvIdle /\ MountIdle /\ SubmitIdle /\ SizeIdle

InitSize ==
    SizeInit /\ WaitIdle /\ ProvIdle /\ DdvIdle /\ MountIdle /\ SubmitIdle /\ FindIdle

InitMount == MountInit /\ WaitIdle /\ ProvIdle /\ DdvIdle /\ SubmitIdle /\ FindIdle /\ SizeIdle

\* CreateAttach of one process
Spec == Init /\ [][ProvNext]_vars

\* CreateAttach of the two processes of the host at once
SpecRace == InitRace /\ [][ProvNext]_vars

\* one WaitForVolumeStatus call
SpecWait == InitWait /\ [][WaitNext]_vars

\* ddv.Main
SpecDdv == InitDdv /\ [][DdvNext]_vars

\* MountLocal under localmount and ebsmount, run once or twice
SpecMount == InitMount /\ [][MountNext]_vars

\* the generated job command in the job's shell
SpecSubmit == InitSubmit /\ [][SubmitNext]_vars

\* one WaitForVolumeStatus call whose describe calls all return
SpecWaitFair == InitWait /\ [][WaitNext]_vars /\ WF_vars(WaitNext)

\* findNextDevNode on its own
SpecFind == InitFind /\ [][FindNext]_vars

\* the split of the size on its own
SpecSize == InitSize /\ [][SizeNext]_vars

----------------------------------------------------------------------------
(* The claims.                                                             *)

\* C1 (Spec): an attach request is issued for a volume only after a status
\* poll observed it 'available', and the device of a volume is appended to the
\* device list only after a status poll observed the volume 'in-use'.
C1_CreateThenAttachThenHand ==
    \A p \in Procs :
        /\ attachReqs[p] \subseteq obsAvail[p]
        /\ handed[p] \subseteq obsInUse[p]
        /\ Len(devices[p]) = Cardinality(handed[p])

\* both volumes of a request of two were attached and handed on
C1_Witness ==
    \E p \in Procs : Cardinality(handed[p]) = 2 /\ Len(devices[p]) = 2

\* C2 (SpecRace): two processes never both record a successful attachment at
\* one device path: a process whose path was rejected attaches at another path
\* or ends with an error.
C2_NoSharedPath ==
    \A p \in Procs : \A q \in Procs \ {p} :
        attOk[p] \cap attOk[q] = {}

\* the two processes offered one path, one was rejected, and both attached
C2_Witness ==
    \E p \in Procs : \E q \in Procs \ {p} :
        /\ attachTries[p][1] = 2
        /\ attOk[p] # {} /\ attOk[q] # {}
        /\ result[p] = "ok" /\ result[q] = "ok"

\* C3 (SpecDdv): a failure of the teardown of one volume id never aborts the
\* teardown of another id: no goroutine is ended by another one's failure.
C3_NoTaskAborted ==
    \A v \in Vids : tpc[v] # "killed"

\* C4 (SpecDdv): when the describe call fails in every probed region,
\* DetachAndDelete returns the error (the 'not found' error, or the describe
\* error of the last region) and sends no detach, poll or delete call.
C4_NotFoundNoCalls ==
    \A v \in Vids :
        (home[v] = 0) =>
            /\ detachCalls[v] = 0 /\ waitCalls[v] = 0 /\ deleteCalls[v] = 0
            /\ (Len(probes[v]) = Len(Regions) /\ tpc[v] # "probe")
                  => tres[v] \in {"err_notfound", "err_describe"}

\* a volume id found in no region: every region was probed, the error returned
C4_Witness ==
    \E v \in Vids :
        /\ home[v] = 0 /\ Len(probes[v]) = Len(Regions)
        /\ tres[v] = "err_notfound"

\* C5 (SpecDdv): the delete call is issued only after the volume was seen
\* unattached, by the status poll or by the provider's report; a failed
\* status wait is returned and no delete call follows.
C5_DeleteAfterAvailable ==
    \A v \in Vids :
        /\ deleteCalls[v] > 0 => sawAvail[v] \in {"poll", "report"}
        /\ tres[v] = "err_wait" => deleteCalls[v] = 0
        /\ deleteCalls[v] <= 1

\* a volume detached, polled available and deleted
C5_Witness ==
    \E v \in Vids :
        /\ deleteCalls[v] = 1 /\ sawAvail[v] = "poll" /\ tres[v] = "deleted"

\* C6 (SpecWait): a wait whose polls all got a state, none of them the target,
\* over the whole budget returns the timeout error naming the state of the
\* last poll; success is returned only when the last poll observed the target.
C6_TimeoutCarriesLast ==
    /\ wres = "timeout" =>
          /\ wcalls = PollBudget
          /\ wlast \in VolStates \ {wstatus}
          /\ wmsg = wlast
    /\ (wcalls = PollBudget /\ wlast \in VolStates \ {wstatus}) => wres = "timeout"
    /\ wres = "ok" => wlast = wstatus

\* the budget ran out on a volume seen 'creating' and then 'error'
C6_Witness ==
    wres = "timeout" /\ wmsg = "error" /\ wstatus = "available"

\* C7 (Spec): every create-volume request for an io1 volume carries iops
\* within [100, 20000] and at most 50 times its size.
C7_IopsInRange ==
    \A p \in Procs : \A c \in createLog[p] :
        c.typ = "io1" =>
            /\ c.iops >= IopsMin /\ c.iops <= IopsMax
            /\ c.iops <= IopsPerGB * c.size

\* C8 (Spec): a request rejected for its iops is rejected before any network
\* call: no metadata request and no control-plane request was issued.
C8_RejectBeforeNetwork ==
    \A p \in Procs :
        result[p] = "err_iops" => (metaCalls[p] = 0 /\ ~cpIssued[p])

\* C9 (Spec): Create is tried at most twice per volume, the second time only
\* after a rate-limit error of the first; a failed retry and a first failure
\* that is no rate-limit error end provisioning with the create error.
C9_CreateRetriedOnce ==
    \A p \in Procs : \A i \in 0..(MaxN - 1) :
        LET t == createTries[p][i]
        IN  /\ Len(t) <= 2
            /\ Len(t) = 2 => t[1] = "ratelimit"
            /\ (Len(t) = 1 /\ t[1] = "ratelimit") => pc[p] = "createRetry"
            /\ (Len(t) >= 1 /\ t[1] = "other") => (Len(t) = 1 /\ result[p] = "err_create")
            /\ (Len(t) = 2 /\ t[2] \in {"ratelimit", "other"}) => result[p] = "err_create"

\* a rate-limited create was retried, and the volume of the retry handed on
C9_Witness ==
    \E p \in Procs :
        /\ createTries[p][0] = <<"ratelimit", "ok">>
        /\ Len(devices[p]) >= 1

\* C10 (Spec): provisioning moves to the second prefix only after the first
\* attempt and 6 more under the first prefix, and gives up with 'unable to
\* attach' only after as many under the second.
C10_SixRetriesPerPrefix ==
    \A p \in Procs :
        /\ (pc[p] = "attach" /\ prefix[p] = 2) => attachTries[p][1] = 1 + 6
        /\ result[p] = "err_unable" =>
              (attachTries[p][1] = 1 + 6 /\ attachTries[p][2] = 1 + 6)

\* what CreateAttach returns when waitForDevice gives up on the device
NoDeviceResults == {"nil_nil", "err_stale"}

\* the returns of CreateAttach whose error value is nil
NilErrResults == {"ok", "nil_nil"}

\* C11 (Spec): an attach request that fails with an error other than 'is
\* already in use' ends CreateAttach with that error at once: no further
\* attach attempt, no change of prefix and no further volume follow.
C11_OtherAttachErrorReturns ==
    \A p \in Procs :
        lastAttach[p] = "other" => (pc[p] = "done" /\ result[p] = "err_attach")

\* the second volume's attach failed with another error after a conflict
C11_Witness ==
    \E p \in Procs :
        /\ lastAttach[p] = "other" /\ result[p] = "err_attach"
        /\ attachTries[p][1] = 2 /\ Len(devices[p]) = 1

\* C12 (Spec): when the device of an attached volume never shows up,
\* CreateAttach returns a non-nil error and does not hand the device on.
C12_NoDeviceIsError ==
    \A p \in Procs :
        result[p] \in NoDeviceResults =>
            /\ result[p] \notin NilErrResults
            /\ \A i \in 1..Len(devices[p]) : devices[p][i] # attachDevice[p]

\* C20 (Spec): when provisioning succeeds, the printed volume ids are the
\* volumes created for the request, each printed once.
C20_PrintedAreCreated ==
    \A p \in Procs :
        result[p] = "ok" =>
            /\ {printed[p][i] : i \in 1..Len(printed[p])} = created[p]
            /\ Len(printed[p]) = Cardinality(created[p])

\* the returns of DetachAndDelete that report a failed teardown
TeardownFailures ==
    {"err_notfound", "err_describe", "err_detach", "err_wait", "err_delete", "panic"}

\* C19 (SpecDdv): when the teardown of a volume id failed, the ddv process
\* ends with a non-zero exit status.
C19_FailureExitsNonZero ==
    (mpc \in {"exit", "crashed"} /\ \E v \in Vids : tres[v] \in TeardownFailures)
        => exitStatus # 0

\* the device dev was handed to mkfs, to mdadm or to mount in this run
Touched(dev) ==
    \/ \E i \in 1..Len(mkfsCalls) : mkfsCalls[i].dev = dev
    \/ \E i \in 1..Len(mdadmCalls) : contains(mdadmCalls[i].devs, dev)
    \/ \E i \in 1..Len(mountCalls) : mountCalls[i].dev = dev

\* part is the path disk followed by a partition number
IsPartitionOf(part, disk) ==
    /\ Len(part) > Len(disk)
    /\ SubSeq(part, 1, Len(disk)) = disk
    /\ \A i \in (Len(disk) + 1)..Len(part) : IsDigit(part[i])
    /\ part[Len(disk) + 1] # "0"

\* C13 (SpecMount): a candidate that is a numbered partition of another
\* candidate of the list is never formatted, assembled or mounted.
C13_AliasNeverUsed ==
    \A i, j \in 1..Len(deviceCandidates) :
        IsPartitionOf(deviceCandidates[j], deviceCandidates[i])
            => ~Touched(deviceCandidates[j])

\* C14 (SpecMount): when every candidate is in the in-use set read from the
\* mount table, MountLocal returns 'no unused local storage found' and calls
\* neither mkfs nor mdadm nor mount.
C14_AllMountedFails ==
    (lpc # "scan" /\ \A i \in 1..Len(deviceCandidates) : deviceCandidates[i] \in inUse)
        => /\ mres = "err_nostorage"
           /\ mkfsCalls = <<>> /\ mdadmCalls = <<>> /\ mountCalls = <<>>

\* the two candidates, mounted by the first run, are all in use in the second
C14_Witness ==
    /\ prior.ran /\ Len(prior.mounts) = 2
    /\ Len(deviceCandidates) = 2
    /\ \A i \in 1..Len(deviceCandidates) : deviceCandidates[i] \in inUse
    /\ mres = "err_nostorage" /\ lpc = "exit"

\* C15 (SpecMount): with exactly one usable device, MountLocal never calls
\* mdadm, formats that device once and mounts it at the base mount point;
\* when it returns no error the device is mounted.
C15_OneDeviceDirect ==
    (lpc # "scan" /\ Len(mdevices) = 1) =>
        /\ mdadmCalls = <<>>
        /\ Len(mkfsCalls) <= 1 /\ Len(mountCalls) <= 1
        /\ \A i \in 1..Len(mkfsCalls) : mkfsCalls[i].dev = mdevices[1]
        /\ \A i \in 1..Len(mountCalls) : mountCalls[i] = [dev |-> mdevices[1], at |-> 0]
        /\ mres = "nil" => (Len(mkfsCalls) = 1 /\ mdevices[1] \in mounted)

\* one usable device of two candidates, mdadm installed: mounted at base
C15_Witness ==
    /\ Len(mdevices) = 1 /\ mdadm /\ Len(deviceCandidates) = 2
    /\ mres = "nil"
    /\ mountCalls = <<[dev |-> mdevices[1], at |-> 0]>>

\* C16 (SpecMount): with two or more usable devices and mdadm installed,
\* MountLocal assembles one array of all usable devices, formats the array
\* once and mounts it once at the base mount point; no member is formatted
\* or mounted by itself.
C16_OneArray ==
    (lpc # "scan" /\ Len(mdevices) >= 2 /\ mdadm) =>
        /\ Len(mdadmCalls) <= 1 /\ Len(mkfsCalls) <= 1 /\ Len(mountCalls) <= 1
        /\ \A i \in 1..Len(mdadmCalls) :
              mdadmCalls[i] = [raid |-> raidDev, devs |-> mdevices]
        /\ \A i \in 1..Len(mkfsCalls) : mkfsCalls[i].dev = raidDev
        /\ \A i \in 1..Len(mountCalls) : mountCalls[i] = [dev |-> raidDev, at |-> 0]
        /\ raidDev \notin {mdevices[i] : i \in 1..Len(mdevices)}
        /\ mres = "nil" =>
              (Len(mdadmCalls) = 1 /\ Len(mkfsCalls) = 1 /\ Len(mountCalls) = 1)

\* three usable devices striped into /dev/md1 and mounted
C16_Witness ==
    /\ Len(mdevices) = 3 /\ mres = "nil"
    /\ raidDev = MdPath(1)
    /\ mountCalls = <<[dev |-> raidDev, at |-> 0]>>

\* C17 (SpecMount): a run on the candidates a first run has formatted and
\* mounted without error returns no error.
C17_SecondRunSucceeds ==
    (prior.ran /\ prior.res = "nil" /\ prior.mounts # <<>> /\ lpc \in {"done", "exit"})
        => mres = "nil"

\* C18 (SpecMount): every mkfs call of ebsmount carries the requested
\* filesystem type.
C18_RequestedFsType ==
    prog = "ebsmount" =>
        \A i \in 1..Len(mkfsCalls) : mkfsCalls[i].fstype = fsType

\* C21 (Spec): without keep, each volume whose device was handed on gets one
\* delete-on-termination call, naming the volume and the path it was attached
\* at, after the volume was seen 'in-use'; at success every attached volume
\* has its call. With keep no such call is made.
C21_MarkedOnce ==
    \A p \in Procs :
        /\ cli[p].Keep => dotCalls[p] = <<>>
        /\ Len(dotCalls[p]) <= Len(devices[p])
        /\ \A i \in 1..Len(dotCalls[p]) :
              /\ dotCalls[p][i] = <<volumes[p][i], devices[p][i]>>
              /\ dotCalls[p][i][1] \in obsInUse[p]
        /\ (result[p] = "ok" /\ ~cli[p].Keep) =>
              (Len(dotCalls[p]) = Len(volumes[p]) /\ Len(volumes[p]) = cli[p].N)

\* two volumes attached without keep: two calls, then success
C21_Witness ==
    \E p \in Procs :
        /\ ~cli[p].Keep /\ result[p] = "ok"
        /\ Len(dotCalls[p]) = 2 /\ dotCalls[p][1] # dotCalls[p][2]

\* C22 (SpecSubmit): for a job submitted with --ebs, when the job's shell has
\* ended (by exit, INT or TERM), `batchit ddv` was called with the volume ids
\* ebsmount printed.
C22_TeardownOnExit ==
    (sEbs /\ shell \in {"exited", "killed"} /\ vidPrinted # {})
        => \E i \in 1..Len(ddvCalls) : ddvCalls[i] = vidPrinted

\* C23 (SpecWaitFair): one wait issues at most 30 describe calls; it goes on
\* only while no poll has observed the target state, returns success on the
\* poll that observes it, issues no describe call once it has returned, and
\* returns when every describe call returns.
C23_BoundedWait ==
    /\ [](/\ wcalls <= PollBudget
          /\ wres = "ok" => wlast = wstatus
          /\ (wres = "running" /\ wcalls > 0) => wlast # wstatus)
    /\ [][wres # "running" => wcalls' = wcalls]_vars
    /\ <>(wres # "running")

\* the target state was observed at the third poll
C23_Witness ==
    wres = "ok" /\ wcalls = 3 /\ wlast = wstatus

C25_OfferedPathFree ==
    [][\A p \in Procs :
         (pc[p] = "attach" /\ attachTries'[p] # attachTries[p]) =>
             /\ attachDevice'[p] \notin devNodes
             /\ \A i \in 1..Len(devices[p]) : devices[p][i] # attachDevice'[p]]_vars

\* the second volume was attached at another path than the first
C25_Witness ==
    \E p \in Procs :
        /\ voli[p] = 1 /\ Len(devices[p]) = 1 /\ lastAttach[p] = "ok"
        /\ attachDevice[p] # devices[p][1] /\ devices[p][1] \in devNodes

\* C26 (SpecFind): findNextDevNode returns the path of the first letter of
\* the search space whose path does not exist, the paths of all earlier
\* letters of the search space existing; it returns no path (it panics) when
\* the path of every letter of the search space exists.
C26_FirstAbsentPath ==
    fnDone =>
        LET pre == Prefixes[fnPrefix]
            absent == {c \in fnFrom..(NLetters - 1) : <<pre, c>> \notin fnNodes}
        IN  IF absent = {} THEN fnOut = NoDev
            ELSE /\ fnOut[1] = pre
                 /\ fnOut[2] \in absent
                 /\ \A c \in fnFrom..(fnOut[2] - 1) : <<pre, c>> \in fnNodes

\* letters[1:] searched with /dev/sdb../dev/sde taken and /dev/sdf free
C26_Witness ==
    /\ fnDone /\ fnFrom = 1 /\ fnOut = <<Prefixes[1], 5>>
    /\ <<Prefixes[1], 6>> \notin fnNodes

\* C27 (SpecDdv): DetachAndDelete probes the regions in the order of the
\* list, probes no region after the one the volume lives in (where the
\* describe call succeeds), and sends its detach, poll and delete calls to
\* that region only.
C27_ProbeOrderAndRegion ==
    \A v \in Vids :
        /\ \A i \in 1..Len(probes[v]) : probes[v][i] = i
        /\ home[v] # 0 => Len(probes[v]) <= home[v]
        /\ callRegions[v] \subseteq {home[v]}
        /\ callRegions[v] # {} => Len(probes[v]) = home[v]

\* a volume of the last region: 15 probes, then its calls went there
C27_Witness ==
    \E v \in Vids :
        /\ home[v] = Len(Regions) /\ Len(probes[v]) = Len(Regions)
        /\ deleteCalls[v] = 1 /\ callRegions[v] = {Len(Regions)}

\* C28 (SpecDdv): when the detach request fails with the provider's report
\* that the volume is in the 'available' state, DetachAndDelete does not
\* return that error: it goes on to the delete call, and what it returns is
\* the outcome of the delete call.
C28_AvailableReportIsSuccess ==
    \A v \in Vids :
        detachAns[v] = "avail" =>
            /\ tres[v] \in {"none", "deleted", "err_delete"}
            /\ tpc[v] \in {"delete", "done", "killed"}
            /\ waitCalls[v] = 0
            /\ tpc[v] = "done" => deleteCalls[v] = 1

\* an unattached volume: the detach was refused, the volume deleted
C28_Witness ==
    \E v \in Vids :
        /\ detachAns[v] = "avail" /\ detachCalls[v] = 1
        /\ deleteCalls[v] = 1 /\ tres[v] = "deleted"

\* C29 (SpecDdv): Main starts one task per volume id, in order, and the
\* process ends only after every task has finished, each in success or in an
\* error that was logged.
C29_MainJoinsTasks ==
    /\ spawned <= NVids
    /\ \A v \in Vids : (tpc[v] # "idle") <=> (v <= spawned)
    /\ mpc \in {"exit", "crashed"} =>
          \A v \in Vids :
              /\ tpc[v] = "done"
              /\ tres[v] \in (TeardownFailures \ {"panic"}) \cup {"deleted"}

\* the candidate at position i is looked up on the filesystem (it is not passed
\* over as the partition alias of another candidate) and does not exist
FirstMissingAt(i) ==
    /\ i \in 1..Len(deviceCandidates)
    /\ ~contains(deviceCandidates, Sub(deviceCandidates[i]))
    /\ deviceCandidates[i] \notin devFiles

\* C30 (SpecMount): no candidate positioned after a candidate that does not
\* exist is selected, formatted, assembled into an array or mounted.
C30_StopsAtFirstMissing ==
    \A i, j \in 1..Len(deviceCandidates) :
        (FirstMissingAt(i) /\ i < j) =>
            /\ ~Touched(deviceCandidates[j])
            /\ ~contains(mdevices, deviceCandidates[j])

\* the first candidate was formatted and mounted, the second does not exist,
\* and the third, which exists and is not mounted, was left alone
C30_Witness ==
    /\ Len(deviceCandidates) = 3
    /\ FirstMissingAt(2)
    /\ deviceCandidates[3] \in devFiles
    /\ deviceCandidates[3] \notin mounted
    /\ ~contains(deviceCandidates, Sub(deviceCandidates[3]))
    /\ lpc = "exit" /\ mres = "nil"
    /\ mountCalls = <<[dev |-> deviceCandidates[1], at |-> 0]>>
    /\ ~Touched(deviceCandidates[3])

\* C31 (SpecMount): in the path without an array the n-th mount call of a run
\* names the mount point of index n - 1 (the base mount point for the first),
\* so no index is skipped and no mount point is used twice.
C31_MountPointsInOrder ==
    raidDev = NoPath =>
        \A n \in 1..Len(mountCalls) : mountCalls[n].at = n - 1

\* the path left when the digits that end dev are taken away (the stem stays)
ParentDisk(dev) ==
    LET cut == { n \in 1..Len(dev) :
                   /\ \A i \in (n + 1)..Len(dev) : IsDigit(dev[i])
                   /\ (n = 1 \/ ~IsDigit(dev[n])) }
    IN  SubSeq(dev, 1, CHOOSE n \in cut : TRUE)

\* C32 (SpecMount): the in-use set MountLocal builds holds every entry of the
\* mount table and the entry's parent disk, and no candidate of the in-use set
\* is handed to mkfs, mdadm or mount.
C32_InUseNeverTouched ==
    /\ [][lpc = "scan" =>
            \A d \in mtab : d \in inUse' /\ ParentDisk(d) \in inUse']_vars
    /\ [](\A i \in 1..Len(deviceCandidates) :
            deviceCandidates[i] \in inUse => ~Touched(deviceCandidates[i]))

\* /dev/xvdb1 is mounted, so the candidate /dev/xvdb is left alone while
\* /dev/xvdc is formatted and mounted
C32_Witness ==
    /\ deviceCandidates = << <<"xvdb">>, <<"xvdc">> >>
    /\ mtab = {<<"xvdb", "1">>, <<"xvdc">>}
    /\ <<"xvdb">> \in inUse /\ <<"xvdb", "1">> \in inUse
    /\ ~Touched(<<"xvdb">>)
    /\ mountCalls = <<[dev |-> <<"xvdc">>, at |-> 0]>>
    /\ lpc = "exit" /\ mres = "nil"

\* C33 (SpecMount): a run that called mdadm and returned an error of mdadm or
\* of the mkfs of the array returns the path of the array with it.
C33_ArrayPathWithError ==
    (mdadmCalls # <<>> /\ mres \in {"err_mdadm", "err_mkfs", "err_ismounted"})
        => (mret = <<raidDev>> /\ raidDev # NoPath)

\* C34 (SpecMount): when the scan takes the path with an array, the array path
\* is /dev/mdN for the least N below 20 whose path does not exist, and mdadm
\* gets that path; when the 20 paths all exist the run fails and calls
\* neither mdadm nor mkfs nor mount.
C34_SmallestFreeMd ==
    /\ [][(lpc = "scan" /\ (lpc' = "mdadm" \/ mres' = "err_nomd")) =>
            IF \E n \in 0..(MdLimit - 1) : MdPath(n) \notin devFiles
            THEN /\ lpc' = "mdadm"
                 /\ \E n \in 0..(MdLimit - 1) :
                      /\ raidDev' = MdPath(n)
                      /\ MdPath(n) \notin devFiles
                      /\ \A m \in 0..(n - 1) : MdPath(m) \in devFiles
            ELSE mres' = "err_nomd" /\ mret' = <<>>]_vars
    /\ [](\A i \in 1..Len(mdadmCalls) : mdadmCalls[i].raid = raidDev)
    /\ [](mres = "err_nomd" =>
            (mkfsCalls = <<>> /\ mdadmCalls = <<>> /\ mountCalls = <<>>))

\* /dev/md0 exists before the run: two devices are assembled at /dev/md1
C34_Witness ==
    /\ ~prior.ran
    /\ MdPath(0) \in devFiles
    /\ Len(mdevices) = 2
    /\ mdadmCalls = <<[raid |-> MdPath(1), devs |-> mdevices]>>
    /\ mret = <<MdPath(1)>> /\ mres = "nil"

\* C35 (Spec): a CreateAttach that has sent provider requests and ended before
\* all N volumes were handed on has returned an error, and it has printed
\* nothing.
C35_AbortReturnsError ==
    \A p \in Procs :
        (pc[p] = "done" /\ cpIssued[p] /\ Len(devices[p]) < cli[p].N) =>
            /\ result[p] \notin ({"ok"} \cup NilErrResults)
            /\ printed[p] = <<>>

\* C36 (Spec): volume ids are printed only when each of the N volumes was
\* created, attached, seen 'in-use', seen on the host and (without keep)
\* marked delete-on-termination; a run that fails before that prints nothing.
C36_PrintAfterAll ==
    \A p \in Procs :
        /\ printed[p] # <<>> =>
              /\ Len(printed[p]) = cli[p].N
              /\ Len(devices[p]) = cli[p].N
              /\ \A i \in 1..Len(printed[p]) :
                    /\ printed[p][i] \in created[p] \cap attachReqs[p]
                    /\ printed[p][i] \in obsInUse[p] \cap handed[p]
                    /\ devices[p][i] \in devNodes
                    /\ ~cli[p].Keep =>
                          (/\ i <= Len(dotCalls[p])
                           /\ dotCalls[p][i] = <<printed[p][i], devices[p][i]>>)
        /\ (pc[p] = "done" /\ result[p] \notin {"ok", "err_mkdir"}) =>
              printed[p] = <<>>

\* two volumes are printed once both have been marked
C36_Witness ==
    \E p \in Procs :
        /\ cli[p].N = 2 /\ ~cli[p].Keep
        /\ Len(printed[p]) = 2 /\ Len(dotCalls[p]) = 2
        /\ result[p] \in {"ok", "err_mkdir"}

\* C37 (SpecDdv): DetachAndDelete sends at most one detach request, and a
\* detach error that does not report the volume available is what it returns,
\* with no poll and no delete call after it.
C37_OneDetachErrorReturned ==
    \A v \in Vids :
        /\ detachCalls[v] <= 1
        /\ detachAns[v] \in {"err_nil", "err_nostate", "err_busy"} =>
              /\ tpc[v] = "done" /\ tres[v] = "err_detach"
              /\ waitCalls[v] = 0 /\ deleteCalls[v] = 0

\* the volumes made by a Create call of p that returned an error: CreateVolume
\* succeeded and the status wait inside Create failed
CreatesNotReturned(p) ==
    Cardinality(created[p])
        - Cardinality({ i \in DOMAIN createTries[p] :
                          \E j \in 1..Len(createTries[p][i]) :
                              createTries[p][i][j] = "ok" })

\* C38 (Spec): a failure of the status wait inside Create ends the whole
\* request: CreateAttach has returned the create error (or has panicked) and
\* sends no further request.
C38_PollErrorAborts ==
    \A p \in Procs :
        CreatesNotReturned(p) > 0 =>
            /\ pc[p] = "done"
            /\ result[p] \in {"err_create", "panic"}
            /\ CreatesNotReturned(p) = 1

\* C39 (SpecSize): the size of each create call is the requested size over N,
\* rounded to the nearest integer with halves up, and N volumes of that size
\* hold at least the requested size.
C39_SplitCoversSize ==
    splitDone =>
        /\ 2 * reqN * perVolume <= 2 * reqSize + reqN
        /\ 2 * reqSize + reqN < 2 * reqN * (perVolume + 1)
        /\ reqN * perVolume >= reqSize

\* C40 (SpecMount): in the path without an array the loop goes past a device
\* only when the device is mounted; a run ended by a failed mkfs or mount of
\* the j-th device returns no device list, has made its last call on that
\* device and has touched none of the devices after it, and the devices
\* before it are still mounted.
C40_FailureStopsNoRollback ==
    (lpc # "scan" /\ mdadmCalls = <<>> /\ raidDev = NoPath) =>
        /\ \A i \in 1..mi :
              /\ mdevices[i] \in mounted
              /\ \E c \in 1..Len(mkfsCalls) : mkfsCalls[c].dev = mdevices[i]
        /\ mres \in {"err_mkfs", "err_mount"} =>
              /\ mret = <<>>
              /\ mkfsCalls[Len(mkfsCalls)].dev = mdevices[mi + 1]
              /\ \A i \in (mi + 2)..Len(mdevices) : ~Touched(mdevices[i])

\* of three devices the first is mounted at the base mount point, the mount
\* of the second fails and the third is left alone
C40_Witness ==
    /\ Len(mdevices) = 3 /\ mi = 1
    /\ mres = "err_mount" /\ mret = <<>>
    /\ mountCalls = <<[dev |-> mdevices[1], at |-> 0], [dev |-> mdevices[2], at |-> 1]>>
    /\ mdevices[1] \in mounted /\ mdevices[2] \notin mounted
    /\ ~Touched(mdevices[3])

============================================================================
